---- MODULE Spec2Model ----
(***************************************************************************)
(* Model of server/mortal-coil.js: the single global gameState, the level  *)
(* catalog, and the request handlers that load a level, start a game,      *)
(* slide the player and reset the level.                                   *)
(***************************************************************************)
EXTENDS Integers, Naturals, Sequences, FiniteSets, TLC

\* ---------------------------------------------------------------- bounds
\* Largest number of cells (width * height) of a level of the catalog.
MaxCells == 6

\* ------------------------------------------------------------ JS values
\* parseInt of a non-numeric string; every comparison with it is false.
NaN == -99
\* A field absent from the request body.
Undefined == -98

IsNumber(v) == v # NaN /\ v # Undefined

\* JS relational operators on numbers: false as soon as one side is NaN.
JsLt(a, b) == IsNumber(a) /\ IsNumber(b) /\ a < b
JsGe(a, b) == IsNumber(a) /\ IsNumber(b) /\ a >= b

\* ------------------------------------------------------------- catalog
\* Characters of a board string: 'X' is a blocked cell, anything else open.
Chars == {"X", "."}

\* Level definitions { width, height, boardStr } with boardStr of length
\* width * height, as the catalog file holds them.
LevelDefs ==
    UNION { { [width |-> w, height |-> h, boardStr |-> s] :
                s \in [1..(w * h) -> Chars] } :
            <<w, h>> \in { d \in (1..MaxCells) \X (1..MaxCells) :
                            d[1] * d[2] <= MaxCells } }

\* A second level whose open cells use other characters than '.'.
SecondLevel ==
    [width |-> 2, height |-> 2, boardStr |-> <<"x", "o", "X", " ">>]

\* The catalogs considered: level 0 is any level definition, level 1 is fixed.
Catalogs == { (0 :> l0) @@ (1 :> SecondLevel) : l0 \in LevelDefs }

\* Level ids a request may carry: parseInt of the :id path segment.
RequestIds == {NaN, 0, 1, 2}

\* Tokens a move request may carry after toLowerCase(), "" being a missing one.
Directions == {"up", "down", "left", "right"}
Tokens == Directions \cup {"north", "constructor", ""}

VARIABLES
    levels,      \* the catalog read at start-up (line 17); never changes
    gameState,   \* the global game state (lines 20-32)
    op,          \* the last request handled
    result,      \* the response to the last request
    emitted,     \* the snapshots broadcast while handling the last request
    moves        \* successful moves since the last successful load or reset

vars == <<levels, gameState, op, result, emitted, moves>>

\* ------------------------------------------------------- pure functions
\* parseBoard taking '.' for the one open character instead of 'X' for the one
\* blocked character.
parseBoardDotOnly(boardStr, width, height) ==
    [y \in 0..(height - 1) |->
        [x \in 0..(width - 1) |->
            LET char == boardStr[y * width + x + 1]
            IN  [blocked |-> (char # "."), visited |-> (char # ".")]]]

parseBoard(boardStr, width, height) ==
    [y \in 0..(height - 1) |->
        [x \in 0..(width - 1) |->
            LET char == boardStr[y * width + x + 1]
            IN  [blocked |-> (char = "X"), visited |-> (char = "X")]]]

\* The <<x, y>> coordinates of the cells of a board (rows, then cells of a row).
Cells(board) ==
    UNION { { <<x, y>> : x \in DOMAIN board[y] } : y \in DOMAIN board }

countPlayableCells(board) ==
    Cardinality({ c \in Cells(board) : ~board[c[2]][c[1]].blocked })

\* The object literal the module starts with.
InitialGameState ==
    [levelId |-> 0, board |-> <<>>, width |-> 0, height |-> 0,
     playerX |-> -1, playerY |-> -1,
     started |-> FALSE, finished |-> FALSE, won |-> FALSE,
     visitedCount |-> 0, totalCells |-> 0]

\* loadLevel without the reset of the player position (lines 73-74 dropped).
loadLevelKeepsPlayer(cat, gs, levelId) ==
    IF levelId \notin DOMAIN cat
    THEN gs
    ELSE LET level == cat[levelId]
             board == parseBoard(level.boardStr, level.width, level.height)
         IN  [levelId |-> levelId,
              width |-> level.width,
              height |-> level.height,
              board |-> board,
              playerX |-> gs.playerX, playerY |-> gs.playerY,
              started |-> FALSE, finished |-> FALSE, won |-> FALSE,
              visitedCount |-> 0,
              totalCells |-> countPlayableCells(board)]

\* loadLevel storing the requested id before it looks the level up (line 69
\* moved above line 65).
loadLevelIdFirst(cat, gs, levelId) ==
    IF levelId \notin DOMAIN cat
    THEN [gs EXCEPT !.levelId = levelId]
    ELSE LET level == cat[levelId]
             board == parseBoard(level.boardStr, level.width, level.height)
         IN  [levelId |-> levelId,
              width |-> level.width,
              height |-> level.height,
              board |-> board,
              playerX |-> -1, playerY |-> -1,
              started |-> FALSE, finished |-> FALSE, won |-> FALSE,
              visitedCount |-> 0,
              totalCells |-> countPlayableCells(board)]

\* loadLevel: the state it leaves and the value it returns.
LoadLevelFound(cat, levelId) == levelId \in DOMAIN cat

loadLevel(cat, gs, levelId) ==
    IF ~LoadLevelFound(cat, levelId)
    THEN gs
    ELSE LET level == cat[levelId]
             board == parseBoard(level.boardStr, level.width, level.height)
         IN  [levelId |-> levelId,
              width |-> level.width,
              height |-> level.height,
              board |-> board,
              playerX |-> -1, playerY |-> -1,
              started |-> FALSE, finished |-> FALSE, won |-> FALSE,
              visitedCount |-> 0,
              totalCells |-> countPlayableCells(board)]

\* The snapshot broadcastState sends: the fields of gameState at that moment.
broadcastState(gs) == <<gs>>

\* The unit vector of a direction token, as the two object-literal lookups
\* give it: a number for the four directions, undefined for an unknown token,
\* and an inherited property of the literal (a function) for "constructor".
InheritedKeys == {"constructor"}

dxOf(direction) ==
    CASE direction = "left" -> -1
      [] direction = "right" -> 1
      [] OTHER -> 0

dyOf(direction) ==
    CASE direction = "up" -> -1
      [] direction = "down" -> 1
      [] OTHER -> 0

LookupUndefined(direction) ==
    direction \notin Directions /\ direction \notin InheritedKeys

\* isValidMove: one step in the direction lands in bounds on a cell that is
\* neither blocked nor visited.
isValidMove(gs, direction) ==
    IF ~gs.started \/ gs.finished THEN FALSE
    ELSE IF LookupUndefined(direction) THEN FALSE
    ELSE LET newX == gs.playerX + dxOf(direction)
             newY == gs.playerY + dyOf(direction)
         IN  IF newX < 0 \/ newX >= gs.width \/ newY < 0 \/ newY >= gs.height
             THEN FALSE
             ELSE LET cell == gs.board[newY][newX]
                  IN  ~cell.blocked /\ ~cell.visited

\* The loop test without the visited check of line 147.
canEnterVisited(gs, newX, newY) ==
    IF newX < 0 \/ newX >= gs.width \/ newY < 0 \/ newY >= gs.height
    THEN FALSE
    ELSE ~gs.board[newY][newX].blocked

\* The two tests of the loop body (lines 140-149): the loop goes on when the
\* target is in bounds and its cell is neither blocked nor visited.
canEnter(gs, newX, newY) ==
    IF newX < 0 \/ newX >= gs.width \/ newY < 0 \/ newY >= gs.height
    THEN FALSE
    ELSE LET cell == gs.board[newY][newX]
         IN  ~(cell.blocked \/ cell.visited)

\* The move to the new cell that also clears the visited flag of the cell left.
enterCellClearsPrevious(gs, newX, newY) ==
    [gs EXCEPT !.board[gs.playerY][gs.playerX].visited = FALSE,
               !.playerX = newX,
               !.playerY = newY,
               !.board[newY][newX].visited = TRUE,
               !.visitedCount = @ + 1]

\* The move to the new cell without the marking of line 154.
enterCellNoMark(gs, newX, newY) ==
    [gs EXCEPT !.playerX = newX,
               !.playerY = newY,
               !.visitedCount = @ + 1]

\* The move to the new cell without the increment of line 155.
enterCellNoCount(gs, newX, newY) ==
    [gs EXCEPT !.playerX = newX,
               !.playerY = newY,
               !.board[newY][newX].visited = TRUE]

\* The move to the new cell (lines 151-155).
enterCell(gs, newX, newY) ==
    [gs EXCEPT !.playerX = newX,
               !.playerY = newY,
               !.board[newY][newX].visited = TRUE,
               !.visitedCount = @ + 1]

\* executeMove's loop body run once: a step of one cell instead of a slide.
slideOneStep(gs, dx, dy, moved) ==
    LET newX == gs.playerX + dx
        newY == gs.playerY + dy
    IN  IF ~canEnter(gs, newX, newY)
        THEN [state |-> gs, moved |-> moved]
        ELSE [state |-> enterCell(gs, newX, newY), moved |-> TRUE]

\* The while (true) loop of executeMove: the state and the moved flag it
\* leaves, started from the state gs and the flag moved.
RECURSIVE slide(_, _, _, _)
slide(gs, dx, dy, moved) ==
    LET newX == gs.playerX + dx
        newY == gs.playerY + dy
    IN  IF ~canEnter(gs, newX, newY)
        THEN [state |-> gs, moved |-> moved]
        ELSE slide(enterCell(gs, newX, newY), dx, dy, TRUE)

\* The win check one cell early.
checkWinOffByOne(gs) ==
    IF gs.visitedCount >= gs.totalCells - 1
    THEN [gs EXCEPT !.finished = TRUE, !.won = TRUE]
    ELSE gs

\* The win check setting finished without won (line 166 dropped).
checkWinFinishedOnly(gs) ==
    IF gs.visitedCount = gs.totalCells
    THEN [gs EXCEPT !.finished = TRUE]
    ELSE gs

\* The win check of executeMove (lines 163-167).
checkWin(gs) ==
    IF gs.visitedCount = gs.totalCells
    THEN [gs EXCEPT !.finished = TRUE, !.won = TRUE]
    ELSE gs

\* The stuck check scanning three of the four directions.
checkStuckThreeDirections(gs) ==
    LET canMove == \E dir \in {"up", "down", "right"} : isValidMove(gs, dir)
    IN  IF ~canMove /\ ~gs.won
        THEN [gs EXCEPT !.finished = TRUE, !.won = FALSE]
        ELSE gs

\* The stuck check without the test of won in line 171.
checkStuckIgnoresWon(gs) ==
    LET canMove == \E dir \in {"up", "down", "left", "right"} : isValidMove(gs, dir)
    IN  IF ~canMove
        THEN [gs EXCEPT !.finished = TRUE, !.won = FALSE]
        ELSE gs

\* The stuck check of executeMove (lines 169-174).
checkStuck(gs) ==
    LET canMove == \E dir \in {"up", "down", "left", "right"} : isValidMove(gs, dir)
    IN  IF ~canMove /\ ~gs.won
        THEN [gs EXCEPT !.finished = TRUE, !.won = FALSE]
        ELSE gs

Failure(message) == [success |-> FALSE, message |-> message]
Thrown == [success |-> FALSE, message |-> "TypeError"]

\* The value executeMove returns after a movement (lines 178-186).
moveResult(gs) ==
    [success |-> TRUE,
     finished |-> gs.finished,
     won |-> gs.won,
     playerX |-> gs.playerX,
     playerY |-> gs.playerY,
     visitedCount |-> gs.visitedCount,
     totalCells |-> gs.totalCells]

\* The slide with the broadcast moved above the win and stuck checks.
slideAndCheckBroadcastFirst(gs, direction) ==
    LET slid == slide(gs, dxOf(direction), dyOf(direction), FALSE)
    IN  IF ~slid.moved
        THEN [state |-> slid.state, emitted |-> <<>>,
              result |-> Failure("Cannot move in that direction")]
        ELSE LET final == checkStuck(checkWin(slid.state))
             IN  [state |-> final,
                  emitted |-> broadcastState(slid.state),
                  result |-> moveResult(final)]

\* executeMove from its loop on (lines 133-186), for a direction of the table:
\* the slide, the no-movement failure, the win and stuck checks, the broadcast
\* and the returned value.
slideAndCheck(gs, direction) ==
    LET slid == slide(gs, dxOf(direction), dyOf(direction), FALSE)
    IN  IF ~slid.moved
        THEN [state |-> slid.state, emitted |-> <<>>,
              result |-> Failure("Cannot move in that direction")]
        ELSE LET final == checkStuck(checkWin(slid.state))
             IN  [state |-> final,
                  emitted |-> broadcastState(final),
                  result |-> moveResult(final)]

\* executeMove looking the direction up before it tests started and finished
\* (lines 126-131 moved above line 122).
executeMoveDirectionFirst(gs, direction) ==
    IF LookupUndefined(direction)
    THEN [state |-> gs, emitted |-> <<>>,
          result |-> Failure("Invalid direction. Use: up, down, left, right")]
    ELSE IF ~gs.started \/ gs.finished
    THEN [state |-> gs, emitted |-> <<>>,
          result |-> Failure("Game not started or already finished")]
    ELSE IF direction \in InheritedKeys
    THEN [state |-> gs, emitted |-> <<>>, result |-> Thrown]
    ELSE slideAndCheck(gs, direction)

\* executeMove: the state it leaves, the value it returns (or the exception
\* it throws) and what it broadcasts.
executeMove(gs, direction) ==
    IF ~gs.started \/ gs.finished
    THEN [state |-> gs, emitted |-> <<>>,
          result |-> Failure("Game not started or already finished")]
    ELSE IF LookupUndefined(direction)
    THEN [state |-> gs, emitted |-> <<>>,
          result |-> Failure("Invalid direction. Use: up, down, left, right")]
    ELSE IF direction \in InheritedKeys
    THEN \* newX and newY are strings: no bounds test is true, and the read of
         \* board[newY][newX] throws on the undefined row.
         [state |-> gs, emitted |-> <<>>, result |-> Thrown]
    ELSE slideAndCheck(gs, direction)

\* startGame without the already-started guard (lines 191-193 dropped).
startGameNoGuard(gs, x, y) ==
    IF JsLt(x, 0) \/ JsGe(x, gs.width) \/ JsLt(y, 0) \/ JsGe(y, gs.height)
    THEN [state |-> gs, emitted |-> <<>>, result |-> Failure("Invalid start position")]
    ELSE IF x = NaN \/ y = NaN
    THEN [state |-> gs, emitted |-> <<>>, result |-> Thrown]
    ELSE IF gs.board[y][x].blocked
    THEN [state |-> gs, emitted |-> <<>>,
          result |-> Failure("Cannot start on a blocked cell")]
    ELSE LET started == [gs EXCEPT !.playerX = x,
                                   !.playerY = y,
                                   !.started = TRUE,
                                   !.board[y][x].visited = TRUE,
                                   !.visitedCount = 1]
         IN  [state |-> started,
              emitted |-> broadcastState(started),
              result |-> [success |-> TRUE, message |-> "Game started"]]

\* startGame running the stuck scan of executeMove on the start cell.
startGameDetectsStuck(gs, x, y) ==
    IF gs.started
    THEN [state |-> gs, emitted |-> <<>>, result |-> Failure("Game already started")]
    ELSE IF JsLt(x, 0) \/ JsGe(x, gs.width) \/ JsLt(y, 0) \/ JsGe(y, gs.height)
    THEN [state |-> gs, emitted |-> <<>>, result |-> Failure("Invalid start position")]
    ELSE IF x = NaN \/ y = NaN
    THEN [state |-> gs, emitted |-> <<>>, result |-> Thrown]
    ELSE IF gs.board[y][x].blocked
    THEN [state |-> gs, emitted |-> <<>>,
          result |-> Failure("Cannot start on a blocked cell")]
    ELSE LET started == checkStuck([gs EXCEPT !.playerX = x,
                                              !.playerY = y,
                                              !.started = TRUE,
                                              !.board[y][x].visited = TRUE,
                                              !.visitedCount = 1])
         IN  [state |-> started,
              emitted |-> broadcastState(started),
              result |-> [success |-> TRUE, message |-> "Game started"]]

\* startGame without the marking of the start cell (line 207 dropped).
startGameNoVisit(gs, x, y) ==
    IF gs.started
    THEN [state |-> gs, emitted |-> <<>>, result |-> Failure("Game already started")]
    ELSE IF JsLt(x, 0) \/ JsGe(x, gs.width) \/ JsLt(y, 0) \/ JsGe(y, gs.height)
    THEN [state |-> gs, emitted |-> <<>>, result |-> Failure("Invalid start position")]
    ELSE IF x = NaN \/ y = NaN
    THEN [state |-> gs, emitted |-> <<>>, result |-> Thrown]
    ELSE IF gs.board[y][x].blocked
    THEN [state |-> gs, emitted |-> <<>>,
          result |-> Failure("Cannot start on a blocked cell")]
    ELSE LET started == [gs EXCEPT !.playerX = x,
                                   !.playerY = y,
                                   !.started = TRUE,
                                   !.visitedCount = 1]
         IN  [state |-> started,
              emitted |-> broadcastState(started),
              result |-> [success |-> TRUE, message |-> "Game started"]]

\* startGame refusing only a game that is started and still running.
startGameIgnoresFinished(gs, x, y) ==
    IF gs.started /\ ~gs.finished
    THEN [state |-> gs, emitted |-> <<>>, result |-> Failure("Game already started")]
    ELSE IF JsLt(x, 0) \/ JsGe(x, gs.width) \/ JsLt(y, 0) \/ JsGe(y, gs.height)
    THEN [state |-> gs, emitted |-> <<>>, result |-> Failure("Invalid start position")]
    ELSE IF x = NaN \/ y = NaN
    THEN [state |-> gs, emitted |-> <<>>, result |-> Thrown]
    ELSE IF gs.board[y][x].blocked
    THEN [state |-> gs, emitted |-> <<>>,
          result |-> Failure("Cannot start on a blocked cell")]
    ELSE LET started == [gs EXCEPT !.playerX = x,
                                   !.playerY = y,
                                   !.started = TRUE,
                                   !.board[y][x].visited = TRUE,
                                   !.visitedCount = 1]
         IN  [state |-> started,
              emitted |-> broadcastState(started),
              result |-> [success |-> TRUE, message |-> "Game started"]]

\* startGame: the state it leaves, the value it returns (or the exception it
\* throws) and what it broadcasts.
startGame(gs, x, y) ==
    IF gs.started
    THEN [state |-> gs, emitted |-> <<>>, result |-> Failure("Game already started")]
    ELSE IF JsLt(x, 0) \/ JsGe(x, gs.width) \/ JsLt(y, 0) \/ JsGe(y, gs.height)
    THEN [state |-> gs, emitted |-> <<>>, result |-> Failure("Invalid start position")]
    ELSE IF x = NaN \/ y = NaN
    THEN \* board[NaN] is undefined, and so is board[y][NaN]: reading a property
         \* of it throws.
         [state |-> gs, emitted |-> <<>>, result |-> Thrown]
    ELSE IF gs.board[y][x].blocked
    THEN [state |-> gs, emitted |-> <<>>,
          result |-> Failure("Cannot start on a blocked cell")]
    ELSE LET started == [gs EXCEPT !.playerX = x,
                                   !.playerY = y,
                                   !.started = TRUE,
                                   !.board[y][x].visited = TRUE,
                                   !.visitedCount = 1]
         IN  [state |-> started,
              emitted |-> broadcastState(started),
              result |-> [success |-> TRUE, message |-> "Game started"]]

\* ------------------------------------------------------------- requests
NoOp == [name |-> "init", id |-> 0, x |-> 0, y |-> 0, direction |-> ""]

\* POST /api/level/:id
LoadLevelRequest(id) ==
    /\ op' = [NoOp EXCEPT !.name = "load", !.id = id]
    /\ gameState' = loadLevel(levels, gameState, id)
    /\ IF LoadLevelFound(levels, id)
       THEN /\ emitted' = broadcastState(gameState')
            /\ result' = [success |-> TRUE, message |-> "Level loaded"]
       ELSE /\ emitted' = <<>>
            /\ result' = Failure("Level not found")
    /\ moves' = IF LoadLevelFound(levels, id) THEN 0 ELSE moves
    /\ UNCHANGED levels

\* POST /api/start
StartRequest(x, y) ==
    /\ op' = [NoOp EXCEPT !.name = "start", !.x = x, !.y = y]
    /\ IF x = Undefined \/ y = Undefined
       THEN /\ result' = Failure("x and y coordinates required")
            /\ emitted' = <<>>
            /\ UNCHANGED gameState
       ELSE LET r == startGame(gameState, x, y)
            IN  /\ gameState' = r.state
                /\ emitted' = r.emitted
                /\ result' = r.result
    /\ UNCHANGED <<levels, moves>>

\* POST /api/move
MoveRequest(direction) ==
    /\ op' = [NoOp EXCEPT !.name = "move", !.direction = direction]
    /\ IF direction = ""
       THEN /\ result' = Failure("direction required (up, down, left, right)")
            /\ emitted' = <<>>
            /\ UNCHANGED gameState
       ELSE LET r == executeMove(gameState, direction)
            IN  /\ gameState' = r.state
                /\ emitted' = r.emitted
                /\ result' = r.result
    /\ moves' = IF result'.success THEN moves + 1 ELSE moves
    /\ UNCHANGED levels

\* The reset route loading level 0 instead of the current level.
ResetRequestLevelZero ==
    /\ op' = [NoOp EXCEPT !.name = "reset"]
    /\ gameState' = loadLevel(levels, gameState, 0)
    /\ emitted' = broadcastState(gameState')
    /\ result' = [success |-> TRUE, message |-> "Level reset"]
    /\ moves' = 0
    /\ UNCHANGED levels

\* POST /api/reset
ResetRequest ==
    /\ op' = [NoOp EXCEPT !.name = "reset"]
    /\ gameState' = loadLevel(levels, gameState, gameState.levelId)
    /\ emitted' = broadcastState(gameState')
    /\ result' = [success |-> TRUE, message |-> "Level reset"]
    /\ moves' = IF LoadLevelFound(levels, gameState.levelId) THEN 0 ELSE moves
    /\ UNCHANGED levels

\* The coordinates a start request may carry for the current level: every
\* cell of the board, one step outside each edge, a non-number and a missing
\* field.
StartInputs ==
    ((0..(gameState.width - 1)) \X (0..(gameState.height - 1)))
    \cup { <<-1, 0>>, <<gameState.width, 0>>, <<0, -1>>, <<0, gameState.height>>,
           <<NaN, 0>>, <<0, NaN>>, <<Undefined, 0>> }

\* The state once the module has run: the catalog is read, then loadLevel(0).
Init ==
    /\ levels \in Catalogs
    /\ gameState = loadLevel(levels, InitialGameState, 0)
    /\ op = NoOp
    /\ result = [success |-> TRUE, message |-> ""]
    /\ emitted = <<>>
    /\ moves = 0

Next ==
    \/ \E id \in RequestIds : LoadLevelRequest(id)
    \/ \E p \in StartInputs : StartRequest(p[1], p[2])
    \/ \E direction \in Tokens : MoveRequest(direction)
    \/ ResetRequest

Spec == Init /\ [][Next]_vars

\* ------------------------------------------------- vocabulary of the claims
\* The cell at <<x, y>> is in bounds, non-blocked and unvisited in state gs.
OpenCell(gs, x, y) ==
    /\ x >= 0 /\ x < gs.width /\ y >= 0 /\ y < gs.height
    /\ ~gs.board[y][x].blocked
    /\ ~gs.board[y][x].visited

Vector(direction) ==
    CASE direction = "up" -> <<0, -1>>
      [] direction = "down" -> <<0, 1>>
      [] direction = "left" -> <<-1, 0>>
      [] direction = "right" -> <<1, 0>>

\* The cell adjacent to the player in the direction is open.
FirstStepOpen(gs, direction) ==
    OpenCell(gs, gs.playerX + Vector(direction)[1], gs.playerY + Vector(direction)[2])

\* No direction has an open adjacent cell.
NoOpenNeighbour(gs) == \A d \in Directions : ~FirstStepOpen(gs, d)

NoMovement == Failure("Cannot move in that direction")

\* ------------------------------------------------------------------ C1
\* C1 as stated: in every reachable state, on any level (also one with one or
\* zero playable cells), won is true if and only if visitedCount = totalCells.
C1_WonIffAllVisited ==
    gameState.won <=> (gameState.visitedCount = gameState.totalCells)

\* C1 amended: won implies visitedCount = totalCells in every reachable state,
\* and visitedCount = totalCells implies won in every state in which a move
\* has succeeded since the last load or reset, hence on every level with two
\* or more playable cells.
C1_WonIffAllVisitedAfterMove ==
    /\ gameState.won => gameState.visitedCount = gameState.totalCells
    /\ (moves >= 1 \/ gameState.totalCells >= 2)
         /\ gameState.visitedCount = gameState.totalCells
       => gameState.won

C1_Witness ==
    /\ gameState.won
    /\ op.name = "move" /\ result.success
    /\ gameState.totalCells >= 2

\* ------------------------------------------------------------------ C2
\* C2 as stated: in every reachable state with the game started and not won,
\* also right after a successful startGame, finished is true if and only if
\* no direction has an adjacent cell in bounds, non-blocked and unvisited.
C2_StuckIffNoOpenNeighbour ==
    (gameState.started /\ ~gameState.won)
        => (gameState.finished <=> NoOpenNeighbour(gameState))

\* C2 amended: in every reachable state with the game started and not won,
\* if a move has succeeded since the last load or reset then finished is true
\* if and only if no direction has an open adjacent cell, and if no move has
\* succeeded since startGame then finished is false, open neighbour or not.
C2_StuckIffNoOpenNeighbourAfterMove ==
    (gameState.started /\ ~gameState.won)
        => IF moves >= 1
           THEN gameState.finished <=> NoOpenNeighbour(gameState)
           ELSE ~gameState.finished

C2_Witness ==
    /\ gameState.started /\ ~gameState.won /\ gameState.finished
    /\ op.name = "move" /\ result.success
    /\ NoOpenNeighbour(gameState)

\* ------------------------------------------------------------------ C3
\* C3: once finished is true, every move and every startGame fails and leaves
\* the game state unchanged, and finished stays true until a successful
\* loadLevel or a resetLevel.
C3_FinishedIsTerminal ==
    [][ gameState.finished =>
          /\ op'.name \in {"move", "start"}
               => (~result'.success /\ gameState' = gameState /\ emitted' = <<>>)
          /\ gameState'.finished
               \/ op'.name = "reset"
               \/ (op'.name = "load" /\ result'.success) ]_vars

C3_Witness ==
    /\ gameState.finished
    /\ op.name = "start" /\ op.x \in 0..(gameState.width - 1) /\ op.y = 0
    /\ ~gameState.board[op.y][op.x].blocked
    /\ ~result.success

\* ------------------------------------------------------------------ C4
\* C4: on an active game, a move in a cardinal direction whose first step is
\* out of bounds, blocked or visited fails with NoMovement and leaves the
\* whole game state as it was.
C4_BlockedFirstStepIsNoMovement ==
    [][ ( /\ gameState.started /\ ~gameState.finished
          /\ op'.name = "move" /\ op'.direction \in Directions
          /\ ~FirstStepOpen(gameState, op'.direction) )
        => ( /\ result' = NoMovement
             /\ gameState' = gameState
             /\ emitted' = <<>> ) ]_vars

C4_Witness ==
    /\ gameState.started /\ ~gameState.finished
    /\ op.name = "move" /\ op.direction \in Directions
    /\ result = NoMovement
    /\ gameState.visitedCount >= 2
    /\ LET x == gameState.playerX + Vector(op.direction)[1]
           y == gameState.playerY + Vector(op.direction)[2]
       IN  /\ x >= 0 /\ x < gameState.width /\ y >= 0 /\ y < gameState.height
           /\ ~gameState.board[y][x].blocked
           /\ gameState.board[y][x].visited

\* ------------------------------------------------------------------ C5
\* The length of the maximal run of open cells of gs that starts at the cell
\* adjacent to the player in the direction.
RunLength(gs, direction) ==
    LET v == Vector(direction)
        OpenAt(k) == OpenCell(gs, gs.playerX + k * v[1], gs.playerY + k * v[2])
    IN  CHOOSE n \in 0..(gs.width + gs.height) :
            /\ \A k \in 1..n : OpenAt(k)
            /\ ~OpenAt(n + 1)

\* The cell <<x, y>> is one of the first n cells from the player of gs in the
\* direction.
InRun(gs, direction, n, x, y) ==
    \E k \in 1..n : /\ x = gs.playerX + k * Vector(direction)[1]
                    /\ y = gs.playerY + k * Vector(direction)[2]

\* C5: a successful move in direction d puts the player on the last cell of
\* the maximal run of open cells starting next to it in direction d; exactly
\* the cells of the run become visited, visitedCount grows by the length of
\* the run, and the cell beyond the final position is not open.
C5_MoveSlidesMaximalRun ==
    [][ (op'.name = "move" /\ result'.success) =>
          LET d == op'.direction
              n == RunLength(gameState, d)
          IN  /\ d \in Directions
              /\ n >= 1
              /\ gameState'.playerX = gameState.playerX + n * Vector(d)[1]
              /\ gameState'.playerY = gameState.playerY + n * Vector(d)[2]
              /\ gameState'.board =
                    [y \in 0..(gameState.height - 1) |->
                      [x \in 0..(gameState.width - 1) |->
                        [blocked |-> gameState.board[y][x].blocked,
                         visited |-> gameState.board[y][x].visited
                                       \/ InRun(gameState, d, n, x, y)]]]
              /\ gameState'.visitedCount = gameState.visitedCount + n
              /\ ~FirstStepOpen(gameState', d)
              /\ result'.playerX = gameState'.playerX
              /\ result'.playerY = gameState'.playerY ]_vars

\* A first move that slid over two cells and stopped in front of a blocked cell.
C5_Witness ==
    /\ op.name = "move" /\ result.success
    /\ moves = 1 /\ gameState.visitedCount = 3
    /\ LET x == gameState.playerX + Vector(op.direction)[1]
           y == gameState.playerY + Vector(op.direction)[2]
       IN  /\ x >= 0 /\ x < gameState.width /\ y >= 0 /\ y < gameState.height
           /\ gameState.board[y][x].blocked

\* ------------------------------------------------------------------ C6
VisitedOpenCells(gs) ==
    { c \in Cells(gs.board) :
        ~gs.board[c[2]][c[1]].blocked /\ gs.board[c[2]][c[1]].visited }

\* C6: in every reachable state visitedCount is the number of non-blocked
\* cells whose visited flag is true, and every successful move strictly
\* increases visitedCount.
C6_VisitedCountCountsVisitedCells ==
    /\ [](gameState.visitedCount = Cardinality(VisitedOpenCells(gameState)))
    /\ [][ (op'.name = "move" /\ result'.success)
             => gameState'.visitedCount > gameState.visitedCount ]_vars

C6_Witness ==
    /\ op.name = "move" /\ result.success
    /\ moves = 2
    /\ gameState.visitedCount = 4
    /\ Cardinality(VisitedOpenCells(gameState)) = 4

\* ------------------------------------------------------------------ C7
\* C7: in every reachable state, started implies 0 <= playerX < width and
\* 0 <= playerY < height, and not started implies playerX = playerY = -1.
C7_PlayerPosition ==
    IF gameState.started
    THEN /\ 0 <= gameState.playerX /\ gameState.playerX < gameState.width
         /\ 0 <= gameState.playerY /\ gameState.playerY < gameState.height
    ELSE gameState.playerX = -1 /\ gameState.playerY = -1

\* A slide that ended on the last column of the last row of a 3 x 2 board.
C7_Witness ==
    /\ gameState.started
    /\ op.name = "move" /\ result.success
    /\ gameState.width = 3 /\ gameState.height = 2
    /\ gameState.playerX = 2 /\ gameState.playerY = 1

\* ------------------------------------------------------------------ C8
\* C8: in every reachable state, won implies visitedCount = totalCells, and
\* finished without won implies that no direction from the player has an
\* open adjacent cell and that visitedCount < totalCells.
C8_TerminalStatesAreSound ==
    /\ gameState.won => gameState.visitedCount = gameState.totalCells
    /\ (gameState.finished /\ ~gameState.won)
         => /\ NoOpenNeighbour(gameState)
            /\ gameState.visitedCount < gameState.totalCells

C8_Witness ==
    /\ gameState.finished /\ ~gameState.won
    /\ gameState.visitedCount + 2 = gameState.totalCells
    /\ moves >= 2

\* ------------------------------------------------------------------ C9
\* C9: loadLevel with an id absent from the catalog answers not found and
\* leaves every field of the game state unchanged, in whatever state the
\* game is.
C9_LoadNotFoundChangesNothing ==
    [][ (op'.name = "load" /\ op'.id \notin DOMAIN levels)
        => ( /\ result' = Failure("Level not found")
             /\ gameState' = gameState
             /\ emitted' = <<>> ) ]_vars

C9_Witness ==
    /\ op.name = "load" /\ op.id = 2
    /\ ~result.success
    /\ gameState.started /\ gameState.finished /\ gameState.won

\* ----------------------------------------------------------------- C10
\* The number of characters of a board string other than 'X'.
NonXCount(boardStr) == Cardinality({ i \in 1..Len(boardStr) : boardStr[i] # "X" })

\* C10: a successful loadLevel(id) leaves a state that depends on the level
\* definition alone: 'X' cells blocked and visited, the others unblocked and
\* unvisited, the player at -1,-1, the three flags false, visitedCount 0 and
\* totalCells the number of non-'X' characters of the board string.
C10_LoadLevelBuildsFreshState ==
    (op.name = "load" /\ op.id \in DOMAIN levels) =>
        LET level == levels[op.id]
        IN  /\ result.success
            /\ gameState.levelId = op.id
            /\ gameState.width = level.width
            /\ gameState.height = level.height
            /\ DOMAIN gameState.board = 0..(level.height - 1)
            /\ \A y \in 0..(level.height - 1) :
                 /\ DOMAIN gameState.board[y] = 0..(level.width - 1)
                 /\ \A x \in 0..(level.width - 1) :
                      LET isX == level.boardStr[y * level.width + x + 1] = "X"
                      IN  /\ gameState.board[y][x].blocked = isX
                          /\ gameState.board[y][x].visited = isX
            /\ gameState.playerX = -1 /\ gameState.playerY = -1
            /\ ~gameState.started /\ ~gameState.finished /\ ~gameState.won
            /\ gameState.visitedCount = 0
            /\ gameState.totalCells = NonXCount(level.boardStr)

C10_Witness ==
    /\ op.name = "load" /\ op.id = 1 /\ result.success
    /\ gameState.levelId = 1
    /\ gameState.totalCells = 3
    /\ gameState.board[1][0].blocked

\* ----------------------------------------------------------------- C11
\* The NEW_LEVEL state of the level id of a catalog, written from the level
\* definition: every non-blocked cell unvisited, the player unset.
FreshState(cat, id) ==
    LET level == cat[id]
    IN  [levelId |-> id,
         width |-> level.width,
         height |-> level.height,
         board |-> [y \in 0..(level.height - 1) |->
                     [x \in 0..(level.width - 1) |->
                       IF level.boardStr[y * level.width + x + 1] = "X"
                       THEN [blocked |-> TRUE, visited |-> TRUE]
                       ELSE [blocked |-> FALSE, visited |-> FALSE]]],
         playerX |-> -1, playerY |-> -1,
         started |-> FALSE, finished |-> FALSE, won |-> FALSE,
         visitedCount |-> 0,
         totalCells |-> NonXCount(level.boardStr)]

InBounds(gs, x, y) == 0 <= x /\ x < gs.width /\ 0 <= y /\ y < gs.height

StartGameAnswersInOrder(withNaN) ==
        ( /\ op'.name = "start"
          /\ op'.x # Undefined /\ op'.y # Undefined
          /\ withNaN \/ (op'.x # NaN /\ op'.y # NaN) ) =>
          /\ gameState.started
               => result' = Failure("Game already started")
          /\ (~gameState.started /\ ~InBounds(gameState, op'.x, op'.y))
               => result' = Failure("Invalid start position")
          /\ ( /\ ~gameState.started
               /\ InBounds(gameState, op'.x, op'.y)
               /\ gameState.board[op'.y][op'.x].blocked )
               => result' = Failure("Cannot start on a blocked cell")
          /\ ~result'.success
               => (gameState' = gameState /\ emitted' = <<>>)

\* C12: startGame checks already-started, then out-of-bounds, then
\* blocked-cell, and reports the first that fails, whatever coordinates the
\* start route hands it (integers or NaN); a failing startGame leaves the game
\* state unchanged.
C12_StartGameChecksInOrder ==
    [][StartGameAnswersInOrder(TRUE)]_vars

\* C12 for integer coordinates only: the part of the claim the code meets.
C12_StartGameChecksInOrderOnIntegers ==
    [][StartGameAnswersInOrder(FALSE)]_vars

\* ----------------------------------------------------------------- C13
\* C13: on a loaded, not yet started level, startGame(x, y) on an in-bounds
\* non-blocked cell succeeds: the player is at x, y, started is true, that
\* cell is visited, visitedCount is 1, finished and won are still false, and
\* nothing else of the game state changes.
C13_StartGamePlacesPlayer ==
    [][ ( /\ op'.name = "start"
          /\ ~gameState.started
          /\ InBounds(gameState, op'.x, op'.y)
          /\ ~gameState.board[op'.y][op'.x].blocked )
        => /\ result'.success
           /\ gameState'.playerX = op'.x /\ gameState'.playerY = op'.y
           /\ gameState'.started
           /\ gameState'.board[op'.y][op'.x].visited
           /\ gameState'.visitedCount = 1
           /\ ~gameState'.finished /\ ~gameState'.won
           /\ \A c \in Cells(gameState.board) :
                c # <<op'.x, op'.y>>
                  => gameState'.board[c[2]][c[1]] = gameState.board[c[2]][c[1]]
           /\ gameState'.board[op'.y][op'.x].blocked = FALSE
           /\ gameState'.levelId = gameState.levelId
           /\ gameState'.width = gameState.width
           /\ gameState'.height = gameState.height
           /\ gameState'.totalCells = gameState.totalCells ]_vars

C13_Witness ==
    /\ op.name = "start" /\ result.success
    /\ op.x = 1 /\ op.y = 1
    /\ gameState.playerX = 1 /\ gameState.playerY = 1
    /\ gameState.visitedCount = 1
    /\ gameState.totalCells >= 2

\* ----------------------------------------------------------------- C14
NotActive == Failure("Game not started or already finished")
InvalidDirection == Failure("Invalid direction. Use: up, down, left, right")

C15_OneNotificationPerStateChange ==
    op.name \in {"start", "move", "load", "reset"} =>
        /\ op.name = "reset" => result.success
        /\ Len(emitted) = IF result.success THEN 1 ELSE 0
        /\ result.success => emitted[1] = gameState
        /\ (op.name = "move" /\ result.success) =>
              /\ emitted[1].playerX = result.playerX
              /\ emitted[1].playerY = result.playerY
              /\ emitted[1].visitedCount = result.visitedCount
              /\ emitted[1].finished = result.finished
              /\ emitted[1].won = result.won

\* A winning move: the snapshot broadcast and the value returned both say won.
C15_Witness ==
    /\ op.name = "move" /\ result.success
    /\ Len(emitted) = 1
    /\ result.won /\ emitted[1].won
    /\ result.visitedCount >= 3

\* ----------------------------------------------------------------- C16
\* The current level is one row of n >= 2 open cells and the game has just
\* been started at (0,0).
StartedAtLeftOfOpenRow(gs) ==
    /\ gs.height = 1 /\ gs.width >= 2
    /\ gs.totalCells = gs.width
    /\ gs.started /\ gs.visitedCount = 1
    /\ gs.playerX = 0 /\ gs.playerY = 0

\* C16: a successful move that brings visitedCount to totalCells sets
\* finished and won in that same move, and reports them, so a covered board
\* is never reported stuck; on a one-row board of n open cells, start at
\* (0,0) then move right slides to (n-1,0) and wins.
C16_FullCoverageWinsAtOnce ==
    /\ []( (op.name = "move" /\ result.success
              /\ gameState.visitedCount = gameState.totalCells)
            => ( /\ gameState.finished /\ gameState.won
                 /\ result.finished /\ result.won ) )
    /\ [][ ( /\ StartedAtLeftOfOpenRow(gameState)
             /\ op'.name = "move" /\ op'.direction = "right" )
            => ( /\ result'.success
                 /\ gameState'.playerX = gameState.width - 1
                 /\ gameState'.playerY = 0
                 /\ gameState'.visitedCount = gameState.width
                 /\ gameState'.finished /\ gameState'.won ) ]_vars

\* The 1 x 3 board "..." after start at (0,0) and move right.
C16_Witness ==
    /\ gameState.levelId = 0
    /\ levels[0] = [width |-> 3, height |-> 1, boardStr |-> <<".", ".", ".">>]
    /\ op.name = "move" /\ op.direction = "right" /\ result.success
    /\ moves = 1
    /\ gameState.playerX = 2 /\ gameState.playerY = 0
    /\ gameState.visitedCount = 3
    /\ gameState.finished /\ gameState.won

\* ----------------------------------------------------------------- C17
\* C17: a startGame that succeeds on a cell with no open neighbour leaves the
\* game active; from then on every move in one of the four directions fails
\* with NoMovement, no move succeeds, and the game state (started true,
\* finished false) stays as it is until a load or a reset.
C17_IsolatedStartStaysActive ==
    [][ /\ (op'.name = "start" /\ result'.success /\ NoOpenNeighbour(gameState'))
            => (gameState'.started /\ ~gameState'.finished)
        /\ ( /\ gameState.started /\ ~gameState.finished
             /\ NoOpenNeighbour(gameState) )
            => /\ (op'.name = "move" /\ op'.direction \in Directions)
                    => result' = NoMovement
               /\ op'.name \in {"move", "start"}
                    => (~result'.success /\ emitted' = <<>>)
               /\ \/ gameState' = gameState
                  \/ op'.name = "reset"
                  \/ (op'.name = "load" /\ result'.success) ]_vars

\* The 1 x 3 board ".X." after start at (0,0) and a move right.
C17_Witness ==
    /\ gameState.levelId = 0
    /\ levels[0] = [width |-> 3, height |-> 1, boardStr |-> <<".", "X", ".">>]
    /\ gameState.started /\ ~gameState.finished
    /\ gameState.playerX = 0 /\ gameState.playerY = 0
    /\ op.name = "move" /\ op.direction = "right"
    /\ result = NoMovement

\* ----------------------------------------------------------------- C18
\* The number of cells the slide loop enters from state gs in a direction.
SlideSteps(gs, direction) ==
    slide(gs, dxOf(direction), dyOf(direction), FALSE).state.visitedCount
        - gs.visitedCount

\* C18: visitedCount never exceeds totalCells; the slide loop, run from any
\* active state in any direction, ends after at most totalCells -
\* visitedCount steps; and at most totalCells - 1 moves succeed between two
\* successful loads or resets, each of them visiting at least one new cell.
C18_MovesAreBounded ==
    /\ gameState.visitedCount <= gameState.totalCells
    /\ (gameState.started /\ ~gameState.finished) =>
          \A d \in Directions :
              /\ SlideSteps(gameState, d) >= 0
              /\ SlideSteps(gameState, d)
                    <= gameState.totalCells - gameState.visitedCount
    /\ moves >= 1 =>
          /\ moves <= gameState.totalCells - 1
          /\ moves + 1 <= gameState.visitedCount

\* A game won with the largest number of moves its level allows.
C18_Witness ==
    /\ gameState.totalCells >= 4
    /\ moves = gameState.totalCells - 1
    /\ gameState.visitedCount = gameState.totalCells
    /\ op.name = "move" /\ result.success

\* ----------------------------------------------------------------- C19
\* C19: every blocked cell is visited in every reachable state; startGame and
\* move, successful or not, change neither levelId, width, height, totalCells
\* nor the blocked flag of any cell; and between loads and resets a visited
\* flag only goes from false to true.
C19_FrameOfStartAndMove ==
    /\ [](\A c \in Cells(gameState.board) :
             gameState.board[c[2]][c[1]].blocked
               => gameState.board[c[2]][c[1]].visited)
    /\ [][ op'.name \in {"start", "move"} =>
             /\ gameState'.levelId = gameState.levelId
             /\ gameState'.width = gameState.width
             /\ gameState'.height = gameState.height
             /\ gameState'.totalCells = gameState.totalCells
             /\ Cells(gameState'.board) = Cells(gameState.board)
             /\ \A c \in Cells(gameState.board) :
                  /\ gameState'.board[c[2]][c[1]].blocked
                       = gameState.board[c[2]][c[1]].blocked
                  /\ gameState.board[c[2]][c[1]].visited
                       => gameState'.board[c[2]][c[1]].visited ]_vars

\* A second successful move on a board with a blocked cell.
C19_Witness ==
    /\ op.name = "move" /\ result.success
    /\ moves = 2
    /\ gameState.totalCells < gameState.width * gameState.height
    /\ gameState.visitedCount >= 4

\* ----------------------------------------------------------------- C20
\* C20: with the requests of all clients handled one whole handler at a time
\* (every step of Next), at most one startGame succeeds between two
\* successful loads or resets: a startGame succeeds only on a game that is
\* not started, leaves it started, and started is cleared by nothing but a
\* successful load or a reset; and whenever started is true the cell at
\* (playerX, playerY) is in bounds, non-blocked and visited.
C20_OneStartPerGame ==
    /\ [](gameState.started =>
            /\ InBounds(gameState, gameState.playerX, gameState.playerY)
            /\ ~gameState.board[gameState.playerY][gameState.playerX].blocked
            /\ gameState.board[gameState.playerY][gameState.playerX].visited)
    /\ [][ /\ (op'.name = "start" /\ result'.success)
               => (~gameState.started /\ gameState'.started)
           /\ (gameState.started /\ ~gameState'.started)
               => \/ op'.name = "reset"
                  \/ (op'.name = "load" /\ result'.success) ]_vars

\* A start request refused on a game that another start request started.
C20_Witness ==
    /\ gameState.started /\ moves = 0
    /\ op.name = "start" /\ ~result.success
    /\ InBounds(gameState, op.x, op.y)
    /\ ~gameState.board[op.y][op.x].blocked
    /\ <<op.x, op.y>> # <<gameState.playerX, gameState.playerY>>
    /\ ~gameState.board[op.y][op.x].visited

====
